---- MODULE Spec2Model ----
(***************************************************************************)
(* Model of custom_components/sonoff/__init__.py: the startup coroutine    *)
(* async_setup, the registration callback add_device and the send_command  *)
(* service.  async_setup is a coroutine: it is cut into one action per     *)
(* stretch of code between two awaits, because only at an await can        *)
(* another callback (a local announcement, a service call) run.            *)
(* add_device is a plain function and so is one indivisible step.          *)
(***************************************************************************)
EXTENDS Integers, Sequences, FiniteSets, TLC

\* ------------------------------------------------------------------ bounds
\* longest device_class list a user override carries in the model
MaxListLen == 4
\* identifier lengths tried by send_command are 0..MaxIdLen
MaxIdLen == 11

\* -------------------------------------------------------- program constants
\* len(deviceid) == 10: a device of the registry
DeviceIdLen == 10
\* len(deviceid) == 6: a camera
CameraIdLen == 6
\* [default_class] * 4
FallbackChannels == 4

DeviceIds == {"d1", "d2"}
\* the order in which registry.devices.items() yields the entries
DeviceOrder == <<"d1", "d2">>

Modes == {"auto", "cloud", "local"}
Reloads == {"once", "always"}
\* default_class is any string: two actuator kinds and a binary class
DefaultClasses == {"switch", "light", "door"}

\* homeassistant.components.binary_sensor.DEVICE_CLASSES (a part of it)
DEVICE_CLASSES == {"door", "motion", "light"}
\* the copy of the binary classes that forgets to leave out light
BINARY_DEVICE_withlight == DEVICE_CLASSES

\* BINARY_DEVICE = [p for p in DEVICE_CLASSES if p != 'light']
BINARY_DEVICE == {p \in DEVICE_CLASSES : p # "light"}
CONF_EXCLUDE == "exclude"

\* ------------------------------------------------------- device_class values
\* A device_class is absent (None), a string or a list of strings.
NoClass == [tag |-> "none", items |-> <<>>]
StrClass(s) == [tag |-> "str", items |-> <<s>>]
ListClass(l) == [tag |-> "list", items |-> l]

\* the i-th entry of the lists the model tries: switch, light, door, fan, ...
KindAt(i) == CASE i % 4 = 1 -> "switch"
               [] i % 4 = 2 -> "light"
               [] i % 4 = 3 -> "door"
               [] OTHER -> "fan"
ListOfLen(n) == ListClass([i \in 1..n |-> KindAt(i)])

\* the device_class values a user's `devices:` section gives a device
UserClasses ==
    {StrClass(CONF_EXCLUDE), StrClass("switch"), StrClass("door"), StrClass("light"),
     StrClass("fan")} \cup {ListOfLen(n) : n \in 1..MaxListLen}

\* ------------------------------------------------------------- descriptors
\* params: the keys of the state dict, or NoParams when the entry has no
\* 'params' key.  handlers: 'handlers' in device.  available, extra: "unset"
\* until add_device writes them.
NoParams == {"<absent>"}
UiidUnknown == "uiid_unknown"
UiidSwitch == "uiid_switch"

CloudDescriptor(keys, online, uiid) ==
    [params |-> keys, online |-> online, host |-> FALSE, device_class |-> NoClass,
     uiid |-> uiid, handlers |-> FALSE, available |-> "unset", extra |-> "unset"]

\* an entry made from the user's section alone: no params, never seen online
BareDescriptor ==
    [params |-> NoParams, online |-> FALSE, host |-> FALSE, device_class |-> NoClass,
     uiid |-> UiidUnknown, handlers |-> FALSE, available |-> "unset", extra |-> "unset"]

EmptyDevices == [d \in {} |-> BareDescriptor]

\* device lists the cloud (and so the cache file, its saved copy) can hold
DeviceLists ==
    { EmptyDevices,
      [d \in {"d1"} |-> CloudDescriptor({"switch"}, TRUE, UiidUnknown)],
      [d \in {"d1"} |-> CloudDescriptor({"switches"}, FALSE, UiidUnknown)],
      [d \in DeviceIds |->
          IF d = "d1" THEN CloudDescriptor({"switch", "partnerDevice"}, FALSE, UiidUnknown)
                      ELSE CloudDescriptor({"other"}, TRUE, UiidSwitch)] }

\* the user's `devices:` section: device id -> device_class
ConfDevices ==
    {[d \in {} |-> NoClass]} \cup
    {[d \in {"d1"} |-> c] : c \in UserClasses} \cup
    {[d \in {"d2"} |-> StrClass(CONF_EXCLUDE)]}

\* states a local announcement carries
LocalStates == {{"switch"}, {"switches"}, {"other"}}

VARIABLES
    config,       \* hass_config[DOMAIN]
    cache,        \* what cache_load_devices read from the cache file
    pc,           \* where async_setup stands
    devices,      \* registry.devices
    trace,        \* the lifecycle calls async_setup has made, in order
    sink,         \* the discovery.async_load_platform tasks created, in order
    loginOk,      \* what cloud_login returned: "none", "true", "false"
    service,      \* send_command is registered
    camerasBound, \* the closure variable `cameras` is assigned
    lastSend,     \* what the latest send_command call did
    result,       \* what async_setup returned: "none", "true", "false"
    stopped,      \* registry.stop has run
    taskOutcome   \* the async_load_platform tasks that have run: <<place in sink, outcome>>

vars == <<config, cache, pc, devices, trace, sink, loginOk, service, camerasBound,
          lastSend, result, stopped, taskOutcome>>


\* ------------------------------------------------- collaborators' functions
\* registry.cache_load_devices(cachefile): the saved device list becomes
\* registry.devices; an absent or unreadable file leaves it empty
cache_load_devices(file) == file

\* registry.cloud_load_devices(cachefile): every descriptor of the cloud's list
\* creates or overwrites the entry of its id, other entries are kept
cloud_load_devices(devs, list) ==
    [d \in (DOMAIN devs) \cup (DOMAIN list) |->
        IF d \in DOMAIN list THEN list[d] ELSE devs[d]]

\* registry.concat_devices(confdevices): the user's device_class is laid over
\* the entry of its id, which is created when the id was not yet seen
concat_devices(devs, conf) ==
    [d \in (DOMAIN devs) \cup (DOMAIN conf) |->
        IF d \in DOMAIN conf
        THEN [(IF d \in DOMAIN devs THEN devs[d] ELSE BareDescriptor)
                 EXCEPT !.device_class = conf[d]]
        ELSE devs[d]]

\* the local channel's merge of an announcement: the entry is created when
\* the id was not yet seen, host is set, the state's fields overwrite params
merge_local(devs, deviceid, state) ==
    LET old == IF deviceid \in DOMAIN devs THEN devs[deviceid] ELSE BareDescriptor
        new == [old EXCEPT !.host = TRUE,
                           !.params = IF old.params = NoParams THEN state
                                      ELSE old.params \cup state]
    IN [d \in (DOMAIN devs) \cup {deviceid} |-> IF d = deviceid THEN new ELSE devs[d]]

\* utils.guess_device_class(device): the table lookup by uiid
guess_device_class(device) ==
    IF device.uiid = UiidSwitch THEN StrClass("switch") ELSE NoClass

\* utils.get_device_info(device): the diagnostic info of the descriptor
get_device_info(device) == "info"

\* utils.parse_multichannel_class(device_class): one entry per list position,
\* carrying the position (from 0) as its channel index
parse_multichannel_class(device_class) ==
    [i \in 1..Len(device_class.items) |->
        [component |-> device_class.items[i], channels |-> {i - 1}]]

\* ---------------------------------------------------------------- add_device
\* `not device_class`: None, '' and [] are falsy
Falsy(device_class) ==
    \/ device_class.tag = "none"
    \/ device_class.tag = "list" /\ device_class.items = <<>>
    \/ device_class = StrClass("")

\* add_device without the test of the marker: every call goes on to dispatch
HasHandlers_never(device) == FALSE

\* 'handlers' in device
HasHandlers(device) == device.handlers

\* add_device without the exclusion of the devices the user wants ignored
IsExcluded_never(device_class) == FALSE

\* device_class == CONF_EXCLUDE
IsExcluded(device_class) == device_class = StrClass(CONF_EXCLUDE)

\* `available` taken from `online` alone
Available_onlineonly(device) == IF device.online THEN "truthy" ELSE "falsy"

\* device.get('online') or device.get('host')
Available(device) == IF device.online \/ device.host THEN "truthy" ELSE "falsy"

\* the fallback taking a `switches` state for a single channel
FallbackClass_single(state, default_class) ==
    IF "switch" \in state \/ "switches" \in state THEN StrClass(default_class)
    ELSE StrClass("binary_sensor")

\* the fallback guess from the device state
FallbackClass(state, default_class) ==
    IF "switch" \in state THEN StrClass(default_class)
    ELSE IF "switches" \in state
         THEN ListClass([i \in 1..FallbackChannels |-> default_class])
         ELSE StrClass("binary_sensor")

\* the device_class add_device ends up with
ResolveClass(device, state, default_class) ==
    LET c1 == device.device_class
        c2 == IF Falsy(c1) THEN guess_device_class(device) ELSE c1
    IN IF Falsy(c2) THEN FallbackClass(state, default_class) ELSE c2

\* add_device normalising the binary classes in the entries of a list as it
\* does a single string
DispatchCalls_normalised(deviceid, device_class) ==
    LET Kind(c) == IF c \in BINARY_DEVICE THEN "binary_sensor" ELSE c
    IN IF device_class.tag = "str"
       THEN <<[component |-> Kind(device_class.items[1]), deviceid |-> deviceid,
               channels |-> {}]>>
       ELSE [i \in 1..Len(device_class.items) |->
                [component |-> Kind(device_class.items[i]), deviceid |-> deviceid,
                 channels |-> {i - 1}]]

\* the async_load_platform tasks created for a resolved device_class; the
\* `channels` of a task is {} for None and {i} for the index i
DispatchCalls(deviceid, device_class) ==
    IF device_class.tag = "str"
    THEN LET c == device_class.items[1]
         IN <<[component |-> IF c \in BINARY_DEVICE THEN "binary_sensor" ELSE c,
               deviceid |-> deviceid, channels |-> {}]>>
    ELSE LET infos == parse_multichannel_class(device_class)
         IN [i \in 1..Len(infos) |->
                [component |-> infos[i].component, deviceid |-> deviceid,
                 channels |-> infos[i].channels]]

\* add_device testing the exclusion before it sets the marker
add_device_excludefirst(devs, snk, tr, deviceid, state) ==
    LET device == devs[deviceid]
        marked == [device EXCEPT !.handlers = TRUE]
        filled == [marked EXCEPT !.available = Available(marked),
                                 !.extra = get_device_info(marked)]
        state2 == state \ {"partnerDevice"}
        device_class == ResolveClass(filled, state2, config.default_class)
    IN IF IsExcluded(device.device_class) \/ HasHandlers(device)
       THEN [devices |-> devs, sink |-> snk, trace |-> tr, state |-> state]
       ELSE [devices |-> [devs EXCEPT ![deviceid] = filled],
             sink |-> snk \o DispatchCalls(deviceid, device_class),
             trace |-> Append(tr, "dispatch"), state |-> state2]

\* add_device(deviceid, state): the registry's devices, the tasks created, the
\* trace and the (mutated) state dict after the call
add_device(devs, snk, tr, deviceid, state) ==
    LET device == devs[deviceid]
        marked == [device EXCEPT !.handlers = TRUE]
        filled == [marked EXCEPT !.available = Available(marked),
                                 !.extra = get_device_info(marked)]
        state2 == state \ {"partnerDevice"}
        device_class == ResolveClass(filled, state2, config.default_class)
    IN IF HasHandlers(device)
       THEN [devices |-> devs, sink |-> snk, trace |-> tr, state |-> state]
       ELSE IF IsExcluded(marked.device_class)
       THEN [devices |-> [devs EXCEPT ![deviceid] = marked], sink |-> snk,
             trace |-> tr, state |-> state]
       ELSE [devices |-> [devs EXCEPT ![deviceid] = filled],
             sink |-> snk \o DispatchCalls(deviceid, device_class),
             trace |-> Append(tr, "dispatch"), state |-> state2]

\* the add loop leaving out the devices that are offline
AddCloudDevice_onlineonly(st, deviceid) ==
    IF \/ deviceid \notin DOMAIN st.devices
       \/ st.devices[deviceid].params = NoParams
       \/ ~st.devices[deviceid].online
    THEN st
    ELSE LET state == st.devices[deviceid].params \cup {"cloud"}
             r == add_device([st.devices EXCEPT ![deviceid].params = state],
                             st.sink, st.trace, deviceid, state)
         IN [devices |-> [r.devices EXCEPT ![deviceid].params = r.state],
             sink |-> r.sink, trace |-> r.trace]

\* one turn of `for deviceid, device in registry.devices.items()`
AddCloudDevice(st, deviceid) ==
    IF deviceid \notin DOMAIN st.devices \/ st.devices[deviceid].params = NoParams
    THEN st
    ELSE LET device == st.devices[deviceid]
             state == device.params \cup {"cloud"}
             r == add_device([st.devices EXCEPT ![deviceid].params = state],
                             st.sink, st.trace, deviceid, state)
         IN [devices |-> [r.devices EXCEPT ![deviceid].params = r.state],
             sink |-> r.sink, trace |-> r.trace]

\* the loop "immediately add all cloud devices", from the i-th entry on
RECURSIVE AddCloudDevices(_, _)
AddCloudDevices(st, i) ==
    IF i > Len(DeviceOrder) THEN st
    ELSE AddCloudDevices(AddCloudDevice(st, DeviceOrder[i]), i + 1)


\* --------------------------------------------------------------- async_setup
\* the credentials taken as present when the username is
has_credentials_username(cfg) == cfg.username

\* has_credentials = CONF_USERNAME in config and CONF_PASSWORD in config
has_credentials(cfg) == cfg.username /\ cfg.password

\* local_once testing the reload option for the wrong value
local_once_always(cfg, devs) ==
    cfg.mode = "local" /\ cfg.reload = "always" /\ DOMAIN devs # {}

\* local_once = mode == 'local' and config[CONF_RELOAD] == 'once' and
\* registry.devices (a dict, truthy when it has an entry)
local_once(cfg, devs) ==
    cfg.mode = "local" /\ cfg.reload = "once" /\ DOMAIN devs # {}

\* async_setup without the branch that gives up in cloud mode
RequiresCloud_never(mode) == FALSE

\* elif mode == 'cloud': the mode cannot do without credentials
RequiresCloud(mode) == mode = "cloud"

\* the cloud block entered in cloud mode alone
StartsCloud_cloudonly(mode) == mode = "cloud"

\* if mode in ('auto', 'cloud')
StartsCloud(mode) == mode \in {"auto", "cloud"}

\* the local block entered in local mode alone
StartsLocal_localonly(mode) == mode = "local"

\* if mode in ('auto', 'local')
StartsLocal(mode) == mode \in {"auto", "local"}

\* async_setup with its two blocks exchanged: the local block first
NextPhase_localfirst(mode, phase) ==
    CASE phase = "registered" ->
            IF mode \in {"auto", "local"} THEN "local_start"
            ELSE IF mode \in {"auto", "cloud"} THEN "cloud_start" ELSE "finish"
      [] phase = "local_start" ->
            IF mode \in {"auto", "cloud"} THEN "cloud_start" ELSE "finish"
      [] OTHER -> "finish"

\* What async_setup does next, in the order of its text: after the service is
\* registered the cloud block, then the local block, then the tail.
NextPhase(mode, phase) ==
    CASE phase = "registered" ->
            IF StartsCloud(mode) THEN "cloud_start"
            ELSE IF StartsLocal(mode) THEN "local_start" ELSE "finish"
      [] phase = "cloud_start" ->
            IF StartsLocal(mode) THEN "local_start" ELSE "finish"
      [] OTHER -> "finish"

\* Runs async_setup from the top of block `phase` to its next await or to its
\* return.
EnterPhase(phase, devs, snk, tr) ==
    CASE phase = "cloud_start" ->
            LET st == AddCloudDevices([devices |-> devs, sink |-> snk, trace |-> tr], 1)
            IN /\ devices' = st.devices
               /\ sink' = st.sink
               /\ trace' = Append(st.trace, "cloud_start")
               /\ pc' = "cloud_start"
               /\ UNCHANGED <<camerasBound, result>>
      [] phase = "local_start" ->
            /\ devices' = devs
            /\ sink' = snk
            /\ trace' = Append(tr, "local_start")
            /\ pc' = "local_start"
            /\ UNCHANGED <<camerasBound, result>>
      [] OTHER ->
            /\ devices' = devs
            /\ sink' = snk
            /\ trace' = Append(tr, "listen_stop")
            /\ camerasBound' = TRUE
            /\ result' = "true"
            /\ pc' = "done"

\* the overlay of the user's devices registering the device it was given
ContinueSetup_registers(devs, tr) ==
    LET conf == config.devices
        devs1 == IF DOMAIN conf # {} THEN concat_devices(devs, conf) ELSE devs
        tr1 == IF DOMAIN conf # {} THEN Append(tr, "concat_devices") ELSE tr
        r == IF DOMAIN conf # {}
             THEN add_device(devs1, sink, tr1, CHOOSE d \in DOMAIN conf : TRUE, {})
             ELSE [devices |-> devs1, sink |-> sink, trace |-> tr1]
    IN /\ service' = TRUE
       /\ EnterPhase(NextPhase(config.mode, "registered"), r.devices, r.sink,
                     Append(r.trace, "service_register"))

\* From `confdevices = config.get(CONF_DEVICES)` to the first await after it.
ContinueSetup(devs, tr) ==
    LET conf == config.devices
        devs1 == IF DOMAIN conf # {} THEN concat_devices(devs, conf) ELSE devs
        tr1 == IF DOMAIN conf # {} THEN Append(tr, "concat_devices") ELSE tr
    IN /\ service' = TRUE
       /\ EnterPhase(NextPhase(config.mode, "registered"), devs1, sink,
                     Append(tr1, "service_register"))

\* From the credentials test to the first await, with the cache loaded.
BeginFrom(devs, tr) ==
    IF has_credentials(config) /\ ~local_once(config, devs)
    THEN /\ devices' = devs
         /\ trace' = Append(tr, "cloud_login")
         /\ pc' = "cloud_login"
         /\ UNCHANGED <<sink, service, camerasBound, result>>
    ELSE IF RequiresCloud(config.mode)
    THEN /\ devices' = devs
         /\ trace' = Append(tr, "error")
         /\ result' = "false"
         /\ pc' = "done"
         /\ UNCHANGED <<sink, service, camerasBound>>
    ELSE ContinueSetup(devs, tr)

\* async_setup without the load of the cache
SetupBegin_nocache ==
    /\ pc = "init"
    /\ cache' = EmptyDevices
    /\ BeginFrom(EmptyDevices, <<>>)
    /\ UNCHANGED <<config, taskOutcome, loginOk, lastSend, stopped>>

\* async_setup from its start: the cache is loaded first
SetupBegin ==
    /\ pc = "init"
    /\ \E file \in DeviceLists :
          /\ cache' = cache_load_devices(file)
          /\ BeginFrom(cache_load_devices(file), <<"cache_load">>)
    /\ UNCHANGED <<config, taskOutcome, loginOk, lastSend, stopped>>

\* the device list pulled whatever cloud_login returned
LoginReturn_alwaysload ==
    /\ pc = "cloud_login"
    /\ \E ok \in BOOLEAN :
          /\ loginOk' = IF ok THEN "true" ELSE "false"
          /\ trace' = Append(trace, "cloud_load_devices")
          /\ pc' = "cloud_load_devices"
          /\ UNCHANGED <<devices, sink, service, camerasBound, result>>
    /\ UNCHANGED <<config, taskOutcome, cache, lastSend, stopped>>

\* `await registry.cloud_login(...)` returns
LoginReturn ==
    /\ pc = "cloud_login"
    /\ \E ok \in BOOLEAN :
          IF ok
          THEN /\ loginOk' = "true"
               /\ trace' = Append(trace, "cloud_load_devices")
               /\ pc' = "cloud_load_devices"
               /\ UNCHANGED <<devices, sink, service, camerasBound, result>>
          ELSE /\ loginOk' = "false"
               /\ ContinueSetup(devices, Append(trace, "warning"))
    /\ UNCHANGED <<config, taskOutcome, cache, lastSend, stopped>>

\* `await registry.cloud_load_devices(cachefile)` returns
LoadDevicesReturn ==
    /\ pc = "cloud_load_devices"
    /\ \E list \in DeviceLists :
          ContinueSetup(cloud_load_devices(devices, list), trace)
    /\ UNCHANGED <<config, taskOutcome, cache, loginOk, lastSend, stopped>>

\* `await registry.cloud_start()` returns
CloudStartReturn ==
    /\ pc = "cloud_start"
    /\ EnterPhase(NextPhase(config.mode, "cloud_start"), devices, sink, trace)
    /\ UNCHANGED <<config, taskOutcome, cache, loginOk, service, lastSend, stopped>>

\* `await registry.local_start([add_device])` returns
LocalStartReturn ==
    /\ pc = "local_start"
    /\ EnterPhase(NextPhase(config.mode, "local_start"), devices, sink, trace)
    /\ UNCHANGED <<config, taskOutcome, cache, loginOk, service, lastSend, stopped>>

Occurred(ev) == \E i \in 1..Len(trace) : trace[i] = ev

\* A device reports the same state fields on both channels: an announcement
\* of a device whose state is known carries its fields, any other may carry
\* any of LocalStates.
ShapeKeys == {"switch", "switches", "other"}
AnnouncedStates(devs, deviceid) ==
    IF deviceid \in DOMAIN devs /\ devs[deviceid].params # NoParams
    THEN {devs[deviceid].params \cap ShapeKeys}
    ELSE LocalStates

\* A local announcement: the local channel, once started with add_device as
\* its handler, merges the announcement and calls add_device(deviceid, state).
LocalDiscover ==
    /\ Occurred("local_start")
    /\ ~stopped
    /\ \E deviceid \in DeviceIds : \E state \in AnnouncedStates(devices, deviceid) :
          LET r == add_device(merge_local(devices, deviceid, state), sink, trace,
                              deviceid, state)
          IN /\ devices' = r.devices
             /\ sink' = r.sink
             /\ trace' = r.trace
    /\ UNCHANGED <<config, taskOutcome, cache, pc, loginOk, service, camerasBound, lastSend, result, stopped>>

\* ------------------------------------------------------------- send_command
IdLens == 0..MaxIdLen
NoSend == [len |-> -1, cmd |-> FALSE, registry |-> 0, camera |-> 0, outcome |-> "none"]

\* send_command(call) for an identifier of `len` characters, with or without a
\* 'cmd' in the call's data.  `cameras` is a variable of async_setup assigned
\* at its tail: read before that it raises NameError; data['cmd'] raises
\* KeyError when the call carries no cmd.
send_command(len, cmd, bound) ==
    IF len = DeviceIdLen
    THEN [len |-> len, cmd |-> cmd, registry |-> 1, camera |-> 0, outcome |-> "sent"]
    ELSE IF len = CameraIdLen
    THEN IF ~bound
         THEN [len |-> len, cmd |-> cmd, registry |-> 0, camera |-> 0,
               outcome |-> "NameError"]
         ELSE IF ~cmd
         THEN [len |-> len, cmd |-> cmd, registry |-> 0, camera |-> 0,
               outcome |-> "KeyError"]
         ELSE [len |-> len, cmd |-> cmd, registry |-> 0, camera |-> 1,
               outcome |-> "sent"]
    ELSE [len |-> len, cmd |-> cmd, registry |-> 0, camera |-> 0,
          outcome |-> "wrong_deviceid"]

\* the service is called, which it can be once it is registered
SendCommand ==
    /\ service
    /\ \E len \in IdLens, cmd \in BOOLEAN :
          lastSend' = send_command(len, cmd, camerasBound)
    /\ UNCHANGED <<config, taskOutcome, cache, pc, devices, trace, sink, loginOk, service, camerasBound,
                   result, stopped>>

\* registry.stop, on EVENT_HOMEASSISTANT_STOP: the channels are torn down
Stop ==
    /\ pc = "done"
    /\ result = "true"
    /\ ~stopped
    /\ stopped' = TRUE
    /\ UNCHANGED <<config, taskOutcome, cache, pc, devices, trace, sink, loginOk, service, camerasBound,
                   lastSend, result>>

\* "scheduled" until the task created by hass.async_create_task has run
TaskStatus(outcomes, i) ==
    IF <<i, "failed">> \in outcomes THEN "failed"
    ELSE IF <<i, "loaded">> \in outcomes THEN "loaded" ELSE "scheduled"

\* A task created by hass.async_create_task runs, some time after add_device
\* has returned: discovery.async_load_platform loads the platform or fails.
\* add_device holds no reference to the task and is not told.
TaskRuns ==
    /\ \E i \in 1..Len(sink) : \E o \in {"loaded", "failed"} :
          /\ TaskStatus(taskOutcome, i) = "scheduled"
          /\ taskOutcome' = taskOutcome \cup {<<i, o>>}
    /\ UNCHANGED <<config, cache, pc, devices, trace, sink, loginOk, service, camerasBound,
                   lastSend, result, stopped>>

Configs ==
    [mode : Modes, reload : Reloads, username : BOOLEAN, password : BOOLEAN,
     default_class : DefaultClasses, devices : ConfDevices]

Init ==
    /\ config \in Configs
    /\ cache = EmptyDevices
    /\ pc = "init"
    /\ devices = EmptyDevices
    /\ trace = <<>>
    /\ sink = <<>>
    /\ loginOk = "none"
    /\ service = FALSE
    /\ camerasBound = FALSE
    /\ lastSend = NoSend
    /\ result = "none"
    /\ stopped = FALSE
    /\ taskOutcome = {}

Next ==
    \/ SetupBegin
    \/ LoginReturn
    \/ LoadDevicesReturn
    \/ CloudStartReturn
    \/ LocalStartReturn
    \/ LocalDiscover
    \/ SendCommand
    \/ Stop
    \/ TaskRuns

Spec == Init /\ [][Next]_vars

\* send_command writes lastSend alone and nothing reads lastSend, so the
\* startup and the registration are checked without it, and send_command is
\* checked from the configurations without a `devices:` section.
NextRegistry ==
    \/ SetupBegin
    \/ LoginReturn
    \/ LoadDevicesReturn
    \/ CloudStartReturn
    \/ LocalStartReturn
    \/ LocalDiscover
    \/ Stop

SpecRegistry == Init /\ [][NextRegistry]_vars

InitSend ==
    /\ Init
    /\ config.default_class = "switch"
    /\ DOMAIN config.devices = {}

NextSend == NextRegistry \/ SendCommand

SpecSend == InitSend /\ [][NextSend]_vars

\* The outcome of a task is written by TaskRuns alone and read by nothing, so
\* it is followed from a few startups in mode auto with credentials only.
NextDispatch == NextRegistry \/ TaskRuns

InitDispatch ==
    /\ Init
    /\ config.mode = "auto"
    /\ config.reload = "once"
    /\ config.username /\ config.password
    /\ config.default_class = "switch"
    /\ config.devices \in {[d \in {} |-> NoClass], [d \in {"d1"} |-> ListOfLen(2)],
                           [d \in {"d2"} |-> StrClass(CONF_EXCLUDE)]}

SpecDispatch == InitDispatch /\ [][NextDispatch]_vars


\* ------------------------------------------------------------------- claims
\* the place of the first `ev` in the trace, 0 when there is none
Pos(ev) ==
    IF Occurred(ev)
    THEN CHOOSE i \in 1..Len(trace) :
            trace[i] = ev /\ \A j \in 1..(i - 1) : trace[j] # ev
    ELSE 0

\* `a` and `b` both occurred, `a` first
Precedes(a, b) == Occurred(a) /\ Occurred(b) /\ Pos(a) < Pos(b)

\* the tasks created for the device, in order
CallsOf(deviceid) == SelectSeq(sink, LAMBDA c : c.deviceid = deviceid)

Credentials == config.username /\ config.password
Finished == pc = "done" /\ result = "true"

\* C1: whatever the calls of add_device made by the cloud add loop and by the
\* local announcements, no two tasks handed to the discovery carry the same
\* device id and the same channel index.
C1_DispatchedAtMostOnce ==
    \A i, j \in 1..Len(sink) :
        (sink[i].deviceid = sink[j].deviceid /\ sink[i].channels = sink[j].channels)
            => i = j

\* C1 witness: a multichannel device was registered by the cloud add loop
\* (its params carry 'cloud') and announced locally afterwards (it has a host).
C1_Witness ==
    \E d \in DOMAIN devices :
        /\ devices[d].handlers
        /\ "cloud" \in devices[d].params
        /\ devices[d].host
        /\ Len(CallsOf(d)) >= 2

\* C2: no task handed to the discovery carries the id of a device whose
\* device_class is "exclude".
C2_ExcludedNeverDispatched ==
    \A i \in 1..Len(sink) :
        devices[sink[i].deviceid].device_class # StrClass(CONF_EXCLUDE)

\* C2 witness: an excluded device went through add_device, from the cloud add
\* loop and from a local announcement both.
C2_Witness ==
    \E d \in DOMAIN devices :
        /\ devices[d].device_class = StrClass(CONF_EXCLUDE)
        /\ devices[d].handlers
        /\ "cloud" \in devices[d].params
        /\ devices[d].host

\* C3: send_command routes by the length of the identifier alone: 10
\* characters give one call of registry.send and none of cameras.send, 6
\* characters one call of cameras.send and none of registry.send, any other
\* length the report of a wrong id and no call.
C3_RoutesByLength ==
    lastSend.outcome # "none" =>
        /\ lastSend.len = DeviceIdLen =>
              lastSend.registry = 1 /\ lastSend.camera = 0
        /\ lastSend.len = CameraIdLen =>
              lastSend.camera = 1 /\ lastSend.registry = 0
        /\ lastSend.len \notin {DeviceIdLen, CameraIdLen} =>
              /\ lastSend.outcome = "wrong_deviceid"
              /\ lastSend.registry = 0
              /\ lastSend.camera = 0

\* C4: with a non-empty cache, mode local, reload once and credentials, the
\* startup never calls cloud_login nor cloud_load_devices.
C4_LocalOnceSkipsCloud ==
    (/\ config.mode = "local"
     /\ config.reload = "once"
     /\ Credentials
     /\ DOMAIN cache # {})
        => ~Occurred("cloud_login") /\ ~Occurred("cloud_load_devices") /\ loginOk = "none"

\* C4 witness: such a startup has run to its end.
C4_Witness ==
    /\ config.mode = "local" /\ config.reload = "once" /\ Credentials
    /\ DOMAIN cache # {}
    /\ Finished

\* C5: with credentials and mode auto, once cloud_login has returned false the
\* warning is recorded, the startup does not return false, and when it has
\* returned it has returned true with the local channel started after the
\* warning.
C5_LoginFailureNotFatal ==
    (config.mode = "auto" /\ Credentials /\ loginOk = "false") =>
        /\ Occurred("warning")
        /\ result # "false"
        /\ pc = "done" => result = "true" /\ Precedes("warning", "local_start")

\* C5 witness: a startup in mode auto whose login failed has returned.
C5_Witness ==
    config.mode = "auto" /\ Credentials /\ loginOk = "false" /\ pc = "done"

\* C6: with mode cloud and no credentials the startup returns false right
\* after the load of the cache: no login, no channel started, no task handed
\* to the discovery, no overlay of the user's devices, no service registered.
C6_CloudWithoutCredentialsFails ==
    (config.mode = "cloud" /\ ~Credentials /\ pc # "init") =>
        /\ pc = "done"
        /\ result = "false"
        /\ trace = <<"cache_load", "error">>
        /\ sink = <<>>
        /\ ~service
        /\ loginOk = "none"
        /\ devices = cache

\* C6 witness: such a startup has returned, with a non-empty cache and a
\* `devices:` section that would have been laid over it.
C6_Witness ==
    /\ config.mode = "cloud" /\ ~Credentials /\ pc = "done"
    /\ DOMAIN cache # {}
    /\ DOMAIN config.devices # {}

\* C7 as stated: a startup in mode auto makes its calls in the order cache
\* load, cloud login, local channel start, cloud channel start.
C7_LocalStartBeforeCloudStart ==
    (config.mode = "auto" /\ Finished) =>
        /\ Occurred("cloud_login") => Precedes("cache_load", "cloud_login")
        /\ Occurred("cloud_login") => Precedes("cloud_login", "local_start")
        /\ Precedes("cache_load", "local_start")
        /\ Precedes("local_start", "cloud_start")

\* C7 amended: a startup in mode auto makes its calls in the order cache load,
\* cloud login (when it is attempted), cloud channel start, local channel
\* start; the local channel is never started before the cloud channel.
C7_CloudStartBeforeLocalStart ==
    config.mode = "auto" =>
        /\ Occurred("local_start") => Precedes("cloud_start", "local_start")
        /\ Finished =>
              /\ Occurred("cloud_login") => Precedes("cache_load", "cloud_login")
              /\ Occurred("cloud_login") => Precedes("cloud_login", "cloud_start")
              /\ Precedes("cache_load", "cloud_start")
              /\ Precedes("cloud_start", "local_start")

\* C7 witness: a startup in mode auto that logged in has returned.
C7_Witness ==
    config.mode = "auto" /\ Finished /\ Occurred("cloud_login")

\* C8: in every mode the load of the cache comes before the cloud login, the
\* start of either channel and every task handed to the discovery.
C8_CacheLoadedFirst ==
    /\ \A ev \in {"cloud_login", "cloud_start", "local_start", "dispatch"} :
          Occurred(ev) => Precedes("cache_load", ev)
    /\ sink # <<>> => Precedes("cache_load", "dispatch")

\* C8 witness: a startup that logged in, started both channels and handed a
\* task to the discovery.
C8_Witness ==
    /\ Occurred("cloud_login") /\ Occurred("cloud_start") /\ Occurred("local_start")
    /\ sink # <<>>

Unresolved(d) ==
    /\ devices[d].handlers
    /\ devices[d].device_class = NoClass
    /\ devices[d].uiid = UiidUnknown

SingleCall(d, kind) == <<[component |-> kind, deviceid |-> d, channels |-> {}]>>

\* C11 as stated: a registered device with no override and no family match has
\* one task of the configured default kind and no channel index when its state
\* has `switch`, four tasks of the configured default kind when it has
\* `switches` and no `switch`, one binary_sensor task without channel index
\* otherwise, whatever the configured default kind.
C11_FallbackUsesDefaultKind ==
    \A d \in DOMAIN devices :
        Unresolved(d) =>
            IF "switch" \in devices[d].params
            THEN CallsOf(d) = SingleCall(d, config.default_class)
            ELSE IF "switches" \in devices[d].params
            THEN /\ Len(CallsOf(d)) = 4
                 /\ \A i \in 1..4 : /\ CallsOf(d)[i].component = config.default_class
                                    /\ CallsOf(d)[i].deviceid = d
            ELSE CallsOf(d) = SingleCall(d, "binary_sensor")

\* C11 amended: as stated, but the single task of a `switch` state is of kind
\* binary_sensor when the configured default kind is a binary class other
\* than light; the four tasks of a `switches` state keep the default kind.
C11_FallbackNormalisesSingleKind ==
    \A d \in DOMAIN devices :
        Unresolved(d) =>
            IF "switch" \in devices[d].params
            THEN CallsOf(d) =
                    SingleCall(d, IF config.default_class \in BINARY_DEVICE
                                  THEN "binary_sensor" ELSE config.default_class)
            ELSE IF "switches" \in devices[d].params
            THEN /\ Len(CallsOf(d)) = 4
                 /\ \A i \in 1..4 : /\ CallsOf(d)[i].component = config.default_class
                                    /\ CallsOf(d)[i].deviceid = d
                                    /\ CallsOf(d)[i].channels = {i - 1}
            ELSE CallsOf(d) = SingleCall(d, "binary_sensor")

\* C11 witness: with the default kind "door", a `switch` device was registered
\* as one binary_sensor.
C11_Witness ==
    \E d \in DOMAIN devices :
        /\ Unresolved(d) /\ "switch" \in devices[d].params
        /\ config.default_class = "door"
        /\ CallsOf(d) = SingleCall(d, "binary_sensor")


C13_OverlayDoesNotDispatch ==
    [][ (~Occurred("concat_devices") /\ \E i \in 1..Len(trace') : trace'[i] = "concat_devices")
          => /\ \A d \in DOMAIN devices' :
                   devices'[d].handlers =>
                      config.mode \in {"auto", "cloud"} /\ devices'[d].params # NoParams
             /\ \A i \in 1..Len(sink') : devices'[sink'[i].deviceid].params # NoParams
             /\ config.mode = "local" => sink' = sink /\ sink' = <<>>
       ]_vars

\* C13 witness: in mode auto the overlay has created the entry of a device not
\* seen before, which is neither marked nor dispatched when the cloud channel
\* is started, while a device of the cloud's list is.
C13_Witness ==
    /\ config.mode = "auto"
    /\ pc = "cloud_start"
    /\ Occurred("concat_devices")
    /\ sink # <<>>
    /\ \E d \in DOMAIN config.devices :
          /\ d \notin DOMAIN cache
          /\ devices[d].params = NoParams
          /\ ~devices[d].handlers
          /\ CallsOf(d) = <<>>


\* the tasks created for the device, in order, after the step
CallsOfNext(deviceid) == SelectSeq(sink', LAMBDA c : c.deviceid = deviceid)

\* C14: no step clears the marker of a marked descriptor, and no step (a call
\* of add_device for it among them) creates a task for it or changes its
\* `available` or `extra`.
C14_MarkerMonotonic ==
    [][ \A d \in DOMAIN devices :
           devices[d].handlers =>
              /\ d \in DOMAIN devices'
              /\ devices'[d].handlers
              /\ devices'[d].available = devices[d].available
              /\ devices'[d].extra = devices[d].extra
              /\ CallsOfNext(d) = CallsOf(d)
       ]_vars

\* C14 witness: a device registered by the cloud add loop while offline and
\* without host was announced locally afterwards: it has a host now, and
\* `available` is as the first call left it.
C14_Witness ==
    \E d \in DOMAIN devices :
        /\ devices[d].handlers
        /\ "cloud" \in devices[d].params
        /\ devices[d].host
        /\ devices[d].available = "falsy"
        /\ CallsOf(d) # <<>>


\* a task created for the device has failed
HasFailedTask(d) ==
    \E i \in 1..Len(sink) : sink[i].deviceid = d /\ TaskStatus(taskOutcome, i) = "failed"

\* C15: add_device marks the descriptor and leaves its tasks scheduled, not
\* run, when it returns; and once a task of a device has failed, the device
\* stays marked and no step, a later call of add_device included, creates a
\* task for it again.
C15_FireAndForget ==
    [][ /\ \A i \in (Len(sink) + 1)..Len(sink') :
              /\ TaskStatus(taskOutcome', i) = "scheduled"
              /\ devices'[sink'[i].deviceid].handlers
        /\ \A d \in DOMAIN devices :
              HasFailedTask(d) =>
                 /\ devices'[d].handlers
                 /\ CallsOfNext(d) = CallsOf(d)
       ]_vars

\* C15 witness: a device registered by the cloud add loop, one of whose tasks
\* has failed, has been announced locally (add_device was called again) and
\* has the tasks of its first registration only.
C15_Witness ==
    \E d \in DOMAIN devices :
        /\ HasFailedTask(d)
        /\ "cloud" \in devices[d].params
        /\ devices[d].host
        /\ devices[d].handlers
        /\ Len(CallsOf(d)) = 2


\* C16: in the step that first registers a descriptor that is not excluded
\* (its marker is set), `available` becomes truthy exactly when the
\* descriptor, as add_device finds it, is online or has a host, falsy when it
\* is offline and has none.  (add_device changes neither `online` nor `host`.)
C16_AvailableAtRegistration ==
    [][ \A d \in DOMAIN devices' :
           (/\ devices'[d].handlers
            /\ (d \in DOMAIN devices => ~devices[d].handlers)
            /\ devices'[d].device_class # StrClass(CONF_EXCLUDE))
              => /\ devices'[d].available \in {"truthy", "falsy"}
                 /\ devices'[d].available = "truthy" <=>
                       (devices'[d].online \/ devices'[d].host)
       ]_vars

\* C16 witness: a device offline in the cloud was first registered by a local
\* announcement (mode local) and is available through its host alone.
C16_Witness ==
    \E d \in DOMAIN devices :
        /\ devices[d].handlers
        /\ devices[d].device_class # StrClass(CONF_EXCLUDE)
        /\ ~devices[d].online
        /\ devices[d].host
        /\ devices[d].available = "truthy"


\* C17: cloud_load_devices is called only after a cloud_login that returned
\* true; when the login was skipped or returned false it is never called, and
\* when the first channel is started (and before any local announcement has
\* been merged) the registry holds the entries of the cache and of the user's
\* `devices:` section and no other, the cached ones as the cache gave them.
C17_ListPulledOnlyAfterLogin ==
    /\ Occurred("cloud_load_devices") =>
          loginOk = "true" /\ Precedes("cloud_login", "cloud_load_devices")
    /\ ((~Occurred("cloud_login") \/ loginOk = "false")
        /\ (Occurred("cloud_start") \/ Occurred("local_start"))
        /\ \A d \in DOMAIN devices : ~devices[d].host)
          => /\ DOMAIN devices = DOMAIN cache \cup DOMAIN config.devices
             /\ \A d \in DOMAIN cache :
                   /\ devices[d].online = cache[d].online
                   /\ devices[d].uiid = cache[d].uiid
                   /\ devices[d].params \cap ShapeKeys = cache[d].params \cap ShapeKeys
             /\ \A d \in DOMAIN devices \ DOMAIN cache : devices[d].params = NoParams

\* C17 witness: the login returned false with a non-empty cache, and the cloud
\* channel has been started over the cached devices.
C17_Witness ==
    /\ loginOk = "false"
    /\ DOMAIN cache = DeviceIds
    /\ pc = "cloud_start"
    /\ DOMAIN devices = DOMAIN cache


\* C18: once the startup has passed its credentials test, cloud_login has been
\* called exactly when the username and the password are both configured and
\* it is not the case that mode is local, reload is once and the loaded cache
\* is non-empty.
C18_LoginAttemptedExactlyWhen ==
    pc # "init" =>
        (Occurred("cloud_login") <=>
            /\ config.username /\ config.password
            /\ ~(config.mode = "local" /\ config.reload = "once" /\ DOMAIN cache # {}))

\* C18 witness: with mode local, reload once, credentials and an empty cache
\* the login was attempted.
C18_Witness ==
    /\ config.mode = "local" /\ config.reload = "once"
    /\ config.username /\ config.password
    /\ pc # "init"
    /\ DOMAIN cache = {}
    /\ Occurred("cloud_login")


\* C19: in modes auto and cloud, when the cloud channel is started every
\* descriptor of the registry that has params has gone through add_device
\* (it is marked, and its params carry the 'cloud' field the loop writes) and
\* every descriptor without params is unmarked and has no task; in mode local
\* no descriptor is marked and no task created before the local channel is
\* started.
C19_AddLoopBeforeCloudStart ==
    /\ (config.mode \in {"auto", "cloud"} /\ pc = "cloud_start") =>
          \A d \in DOMAIN devices :
             IF devices[d].params # NoParams
             THEN devices[d].handlers /\ "cloud" \in devices[d].params
             ELSE ~devices[d].handlers /\ CallsOf(d) = <<>>
    /\ (config.mode \in {"auto", "cloud"} /\ ~Occurred("cloud_start")) =>
          sink = <<>> /\ \A d \in DOMAIN devices : ~devices[d].handlers
    /\ (config.mode = "local" /\ ~Occurred("local_start")) =>
          sink = <<>> /\ \A d \in DOMAIN devices : ~devices[d].handlers
    /\ config.mode = "local" =>
          \A d \in DOMAIN devices : devices[d].handlers => devices[d].host

\* C19 witness: in mode cloud the cloud channel is started with an offline
\* cached device registered and a device known from the user's section alone
\* left unmarked.
C19_Witness ==
    /\ config.mode = "cloud"
    /\ pc = "cloud_start"
    /\ \E d \in DOMAIN devices :
          devices[d].params # NoParams /\ ~devices[d].online /\ devices[d].handlers
    /\ \E d \in DOMAIN devices : devices[d].params = NoParams /\ ~devices[d].handlers

\* C19 witness: in mode local a cached device is surfaced by its announcement.
C19_WitnessLocal ==
    /\ config.mode = "local"
    /\ \E d \in DOMAIN cache : devices[d].handlers /\ devices[d].host /\ CallsOf(d) # <<>>


\* C20: an excluded descriptor for which add_device has been called (by the
\* add loop, which leaves 'cloud' in its params, or for an announcement, which
\* leaves it a host) is marked, and the `available` and `extra` of an excluded
\* descriptor are never written.
C20_ExcludedMarkedNotFilled ==
    \A d \in DOMAIN devices :
        devices[d].device_class = StrClass(CONF_EXCLUDE) =>
            /\ ("cloud" \in devices[d].params \/ devices[d].host) => devices[d].handlers
            /\ devices[d].available = "unset"
            /\ devices[d].extra = "unset"

\* C20 witness: an excluded device that is online was registered by the add
\* loop and announced locally, and is marked with `available` unset.
C20_Witness ==
    \E d \in DOMAIN devices :
        /\ devices[d].device_class = StrClass(CONF_EXCLUDE)
        /\ devices[d].online
        /\ "cloud" \in devices[d].params
        /\ devices[d].host
        /\ devices[d].handlers
        /\ devices[d].available = "unset"

====
